---------------------------- MODULE Spec2Model ----------------------------
(***************************************************************************)
(* A model of the collections of this repository:                          *)
(*   - SelkirkLinkedQueue (concurrent-queue/src/lib.rs): a queue handle    *)
(*     with two atomic cursors over heap-allocated nodes, operated by      *)
(*     several threads;                                                    *)
(*   - PriorityQueue (src/queue/priority_queue/mod.rs): a sequential       *)
(*     array-backed max heap;                                              *)
(*   - RedBlackT (src/tree/red_black/mod.rs): a sequential tree.           *)
(* The structures do not interact: Spec, FairSpec and SpecReclaim run the  *)
(* concurrent queue, SpecPQ and SpecEq run priority queues, SpecRB runs    *)
(* the tree, and each leaves the other structures' variables at their      *)
(* initial values.                                                         *)
(***************************************************************************)
EXTENDS Integers, Sequences, FiniteSets

(***************************************************************************)
(* Bounds of the model.                                                    *)
(***************************************************************************)
\* number of threads sharing one SelkirkLinkedQueue
NumThreads == 2
\* enqueued elements are drawn from 1..MaxVal
MaxVal == 2
\* total number of calls made on the queue in one run
MaxOps == 3
\* priority-queue elements are drawn from 1..MaxPQVal
MaxPQVal == 3
\* total number of push calls made on the priority queue in one run
MaxPush == 4
\* with_capacity(c) is called with c in 0..MaxCap
MaxCap == 2
\* tree elements are drawn from 1..MaxRBVal
MaxRBVal == 2
\* total number of calls made on the tree in one run
MaxRBOps == 3

Threads == 1..NumThreads
Values == 1..MaxVal
PQVals == 1..MaxPQVal
RBVals == 1..MaxRBVal

(***************************************************************************)
(* SelkirkLinkedQueue: state.                                              *)
(*                                                                         *)
(* Nodes are identified by the order of their allocation, 1, 2, ...; node  *)
(* n has the fields item[n] and next[n].  Null is the null pointer.  No    *)
(* published node is ever freed by the code, so an address is never        *)
(* reused for a node that tail or head has pointed to, and the allocation  *)
(* index stands for the address.                                           *)
(***************************************************************************)
VARIABLES
    item,       \* item[n]: Node.item of node n
    next,       \* next[n]: Node.next of node n (Null or a node)
    freed,      \* the nodes whose memory has been released
    head,       \* SelkirkLinkedQueue.head
    tail,       \* SelkirkLinkedQueue.tail
    pc,         \* pc[t]: where thread t stands: "idle", "cas" (inside
                \* enqueue) or "print" (inside print_last)
    elem,       \* elem[t]: the argument of thread t's pending enqueue
    cur,        \* cur[t]: the value thread t loaded from tail
    ops,        \* the number of calls made so far
    hist        \* the calls and returns made so far, in order: op is the
                \* event, t the thread, v the element passed, ok whether
                \* the CAS succeeded, res the Result a dequeue returned

(***************************************************************************)
(* PriorityQueue: state.                                                   *)
(***************************************************************************)
VARIABLES
    heap,       \* PriorityQueue.heap, a Vec: heap[i+1] is the code's heap[i]
    next_index, \* PriorityQueue.next_index
    capacity,   \* the capacity of the Vec
    pq_op,      \* the last call made: "new", "push" or "poll"
    pq_ret,     \* the Option the last poll returned (None before any poll)
    n_push,     \* the number of push calls made
    n_some,     \* the number of poll calls that returned Some
    drain_from, \* the heap as the last push (or the constructor) left it
    actual      \* the elements the polls since then returned, in order

(***************************************************************************)
(* A second PriorityQueue, the right-hand side of an == comparison.        *)
(***************************************************************************)
VARIABLES
    other       \* its fields: [heap, next_index]

(***************************************************************************)
(* RedBlackT: state.                                                       *)
(***************************************************************************)
VARIABLES
    root,       \* RedBlackT.root: None, or Some of a Node [elem, colour]
    size,       \* RedBlackT.size
    rb_hist     \* the calls made so far, in order: op is the method, arg its
                \* argument, found what contains returned, removed the
                \* Option remove returned

qvars == <<item, next, freed, head, tail, pc, elem, cur, ops, hist>>
pqvars == <<heap, next_index, capacity, pq_op, pq_ret, n_push, n_some,
            drain_from, actual>>
rbvars == <<root, size, rb_hist>>
vars == <<qvars, pqvars, other, rbvars>>

Null == 0
\* A Result<T, ()> or an Option<T> is a sequence: <<>> is Err(()) or None,
\* <<x>> is Ok(x) or Some(x).
\* dequeue's Err(()), the empty signal
Empty == <<>>
\* Option::None
None == <<>>
Some(x) == <<x>>
\* T::default() of the element type of the tests, i32
DefaultItem == 0


(***************************************************************************)
(* SelkirkLinkedQueue: construction.                                       *)
(***************************************************************************)
\* A plausible slip in new(): tail gets a sentinel of its own instead of a
\* copy of head's pointer.
NewQueueTwoSentinels ==
    [item |-> <<DefaultItem, DefaultItem>>, next |-> <<Null, Null>>,
     head |-> 1, tail |-> 2]

\* new(): one node made by Node::new_empty() (item: T::default(), next:
\* null); head points to it and tail is a clone of head, the same pointer.
NewQueue ==
    [item |-> <<DefaultItem>>, next |-> <<Null>>, head |-> 1, tail |-> 1]

InitQ ==
    /\ item = NewQueue.item
    /\ next = NewQueue.next
    /\ head = NewQueue.head
    /\ tail = NewQueue.tail
    /\ freed = {}
    /\ pc = [t \in Threads |-> "idle"]
    /\ elem = [t \in Threads |-> DefaultItem]
    /\ cur = [t \in Threads |-> Null]
    /\ ops = 0
    /\ hist = <<>>

(***************************************************************************)
(* SelkirkLinkedQueue: operations.                                         *)
(***************************************************************************)
\* A plausible slip in the CAS: a plain store, whatever tail holds.
CasTailUnconditional(expected, new) == new

\* Atomic::compare_and_set on tail: the value tail holds afterwards.
CasTail(expected, new) == IF tail = expected THEN new ELSE tail

\* A plausible slip in enqueue: a thread whose CAS failed retries the CAS
\* in a loop with the pointer it loaded once.  tail never holds that pointer
\* again, so the loop never ends and changes nothing: the position "spin",
\* which no step leaves.
AfterCasSpin(t) == IF tail = cur[t] THEN "idle" ELSE "spin"

\* Where thread t stands after the CAS of enqueue: the function ends
\* whether the CAS succeeded or not (there is no loop).
AfterCas(t) == "idle"

\* A plausible slip in enqueue: on success the node tail pointed to before
\* is destroyed at once (into_owned and drop) instead of being left alone
\* or deferred to the guard.
FreedAfterCasDropsOld(t, n, won) ==
    IF won THEN freed \cup {cur[t]} ELSE freed \cup {n}

\* The freed nodes after the CAS of enqueue: on failure the error returned
\* holds the Owned new node, dropped when the function ends; on success
\* nothing is freed (the old tail node is neither destroyed nor deferred).
FreedAfterCas(t, n, won) == IF won THEN freed ELSE freed \cup {n}

\* enqueue, first part: Node::new(elem), pin(), and the load of tail that is
\* the first argument of compare_and_set.
EnqueueLoad(t, e) ==
    /\ pc[t] = "idle"
    /\ ops < MaxOps
    /\ ops' = ops + 1
    /\ pc' = [pc EXCEPT ![t] = "cas"]
    /\ elem' = [elem EXCEPT ![t] = e]
    /\ cur' = [cur EXCEPT ![t] = tail]
    /\ hist' = Append(hist, [op |-> "enqueue_call", t |-> t, v |-> e, ok |-> TRUE,
                             res |-> Empty])
    /\ UNCHANGED <<item, next, freed, head, tail>>
    /\ UNCHANGED <<pqvars, other, rbvars>>

\* enqueue, second part: Owned::new(new_node) allocates the node, the CAS
\* swings tail to it if tail still holds the loaded pointer; if not, the
\* error returned holds the Owned node, which is dropped (freed) when the
\* function ends.  No next link and no head is written.
EnqueueCAS(t) ==
    /\ pc[t] = "cas"
    /\ LET n == Len(item) + 1
           won == (CasTail(cur[t], n) = n)
       IN  /\ item' = Append(item, elem[t])
           /\ next' = Append(next, Null)
           /\ tail' = CasTail(cur[t], n)
           /\ freed' = FreedAfterCas(t, n, won)
           /\ hist' = Append(hist, [op |-> "enqueue_ret", t |-> t,
                                    v |-> elem[t], ok |-> won,
                                    res |-> Empty])
    /\ pc' = [pc EXCEPT ![t] = AfterCas(t)]
    /\ UNCHANGED <<head, elem, cur, ops>>
    /\ UNCHANGED <<pqvars, other, rbvars>>

\* A plausible slip in dequeue: the item of the node head points to is
\* returned, with nothing unlinked.
DequeueResultHeadItem == <<item[head]>>

\* dequeue: the body is Err(()).
DequeueResult == Empty

\* A plausible slip in dequeue: finding nothing to return, it resets tail
\* to head.
TailAfterDequeueReset == head

\* tail after dequeue: dequeue does not write it.
TailAfterDequeue == tail

Dequeue(t) ==
    /\ pc[t] = "idle"
    /\ ops < MaxOps
    /\ ops' = ops + 1
    /\ hist' = Append(hist, [op |-> "dequeue", t |-> t, v |-> DefaultItem,
                             ok |-> TRUE, res |-> DequeueResult])
    /\ tail' = TailAfterDequeue
    /\ UNCHANGED <<item, next, freed, head, pc, elem, cur>>
    /\ UNCHANGED <<pqvars, other, rbvars>>

\* add(elem) calls offer(elem), whose body is commented out: the element
\* is dropped and no field of the queue is written.
Add(t, e) ==
    /\ pc[t] = "idle"
    /\ ops < MaxOps
    /\ ops' = ops + 1
    /\ hist' = Append(hist, [op |-> "add", t |-> t, v |-> e, ok |-> TRUE,
                             res |-> Empty])
    /\ UNCHANGED <<item, next, freed, head, tail, pc, elem, cur>>
    /\ UNCHANGED <<pqvars, other, rbvars>>

\* print_last, first part: pin() and the load of tail.
PrintLastLoad(t) ==
    /\ pc[t] = "idle"
    /\ ops < MaxOps
    /\ ops' = ops + 1
    /\ pc' = [pc EXCEPT ![t] = "print"]
    /\ cur' = [cur EXCEPT ![t] = tail]
    /\ UNCHANGED <<item, next, freed, head, tail, elem, hist>>
    /\ UNCHANGED <<pqvars, other, rbvars>>

\* print_last, second part: as_ref() on the loaded pointer and the print of
\* the node's item (ok: the pointer was not null).  Reading a freed node is
\* undefined behaviour: any item may be printed.
PrintLastDeref(t) ==
    /\ pc[t] = "print"
    /\ \E x \in (IF cur[t] = Null THEN {DefaultItem}
                 ELSE IF cur[t] \in freed THEN Values \cup {DefaultItem}
                 ELSE {item[cur[t]]}) :
          hist' = Append(hist, [op |-> "print_last", t |-> t, v |-> x,
                                ok |-> (cur[t] # Null), res |-> Empty])
    /\ pc' = [pc EXCEPT ![t] = "idle"]
    /\ UNCHANGED <<item, next, freed, head, tail, elem, cur, ops>>
    /\ UNCHANGED <<pqvars, other, rbvars>>

(***************************************************************************)
(* What a traversal from a cursor sees.                                    *)
(***************************************************************************)
RECURSIVE ChainFrom(_, _)
\* The nodes reached from node n by next links, n included; fuel bounds the
\* walk by the number of nodes.
ChainFrom(n, fuel) ==
    IF n = Null \/ fuel = 0 THEN <<>>
    ELSE <<n>> \o ChainFrom(next[n], fuel - 1)

\* The nodes after the sentinel head points to: the elements of the queue.
Chain == Tail(ChainFrom(head, Len(item)))

ChainItems == [i \in 1..Len(Chain) |-> item[Chain[i]]]

\* the number of positions of sequence s that hold v
Count(s, v) == Cardinality({i \in DOMAIN s : s[i] = v})


(***************************************************************************)
(* PriorityQueue: the heap's index arithmetic and its two sifts.  The      *)
(* code's indices start at 0: At(h, i) is the code's h[i].                 *)
(***************************************************************************)
At(h, i) == h[i + 1]

\* Vec::swap(a, b)
Swap(h, a, b) == [h EXCEPT ![a + 1] = h[b + 1], ![b + 1] = h[a + 1]]

parent(child) == (child - 1) \div 2

right_ch(p) == p * 2 + 2

left_ch(p) == p * 2 + 1

\* is_leaf(index), with next_index = ni
is_leaf(ni, index) == index >= ni \div 2 /\ index < ni

RECURSIVE SiftUp(_, _)
\* The while loop of push: the new element climbs while it is greater
\* than its parent.
SiftUp(h, current) ==
    IF current # 0 /\ At(h, current) > At(h, parent(current))
    THEN SiftUp(Swap(h, current, parent(current)), parent(current))
    ELSE h

\* A plausible slip in siftdown: the left child is always taken.
MaxChildLeftOnly(h, ni, index) == left_ch(index)

\* The child siftdown compares with: the right one if it exists and is
\* greater than the left one, else the left one.
MaxChild(h, ni, index) ==
    IF right_ch(index) < ni /\ At(h, left_ch(index)) < At(h, right_ch(index))
    THEN right_ch(index)
    ELSE left_ch(index)

RECURSIVE siftdown(_, _, _)
\* siftdown(index) on heap h with next_index = ni
siftdown(h, ni, index) ==
    IF ~is_leaf(ni, index)
    THEN LET max_ch_index == MaxChild(h, ni, index)
         IN  IF At(h, max_ch_index) < At(h, index)
             THEN h
             ELSE siftdown(Swap(h, max_ch_index, index), ni, max_ch_index)
    ELSE h

\* The capacity of a Vec after a push that finds it full: the amortized
\* growth of the standard library (double, at least 4 for small elements).
Grow(cap) == IF cap * 2 > 4 THEN cap * 2 ELSE 4

(***************************************************************************)
(* PriorityQueue: construction and operations.                             *)
(***************************************************************************)
\* new() is with_capacity(0) as far as the fields go.
InitPQ ==
    /\ heap = <<>>
    /\ next_index = 0
    /\ capacity \in 0..MaxCap
    /\ pq_op = "new"
    /\ pq_ret = None
    /\ n_push = 0
    /\ n_some = 0
    /\ drain_from = <<>>
    /\ actual = <<>>

\* len()
len == Len(heap)

\* is_empty()
is_empty == (heap = <<>>)

\* A plausible slip in push: next_index is not advanced.
NextIndexAfterPushStale == next_index

\* next_index after push
NextIndexAfterPush == next_index + 1

Push(e) ==
    /\ n_push < MaxPush
    /\ LET current == next_index
           pushed == Append(heap, e)
       IN  /\ heap' = SiftUp(pushed, current)
           /\ next_index' = NextIndexAfterPush
    /\ capacity' = IF Len(heap) = capacity THEN Grow(capacity) ELSE capacity
    /\ pq_op' = "push"
    /\ n_push' = n_push + 1
    /\ drain_from' = heap'
    /\ actual' = <<>>
    /\ UNCHANGED <<n_some, pq_ret>>
    /\ UNCHANGED <<qvars, other, rbvars>>

\* poll() on an empty queue returns None and writes nothing.
PollEmpty ==
    /\ is_empty
    /\ pq_op' = "poll"
    /\ pq_ret' = None
    /\ UNCHANGED <<heap, next_index, capacity, n_push, n_some, drain_from, actual>>
    /\ UNCHANGED <<qvars, other, rbvars>>

\* poll() on a non-empty queue: the root is swapped with the last element,
\* the new root sifted down over the first next_index elements, and the
\* last element popped and returned.
PollSome ==
    /\ ~is_empty
    /\ LET ni == next_index - 1
           swapped == Swap(heap, 0, ni)
           sifted == IF ni # 0 THEN siftdown(swapped, ni, 0) ELSE swapped
       IN  /\ next_index' = ni
           /\ heap' = SubSeq(sifted, 1, Len(sifted) - 1)
           /\ pq_ret' = Some(sifted[Len(sifted)])
           /\ actual' = Append(actual, sifted[Len(sifted)])
    /\ pq_op' = "poll"
    /\ n_some' = n_some + 1
    /\ UNCHANGED <<capacity, n_push, drain_from>>
    /\ UNCHANGED <<qvars, other, rbvars>>

(***************************************************************************)
(* PriorityQueue: a second queue and the derived ==.                       *)
(***************************************************************************)
\* PriorityQueue::new() for the second queue
InitOther == other = [heap |-> <<>>, next_index |-> 0]

\* the first queue's fields, as the second queue's are held
self == [heap |-> heap, next_index |-> next_index]

\* push(e) on the second queue
PushOther(e) ==
    /\ Len(other.heap) < MaxPush
    /\ other' = [heap |-> SiftUp(Append(other.heap, e), other.next_index),
                 next_index |-> other.next_index + 1]
    /\ UNCHANGED <<qvars, pqvars, rbvars>>

\* #[derive(PartialEq)]: two queues are == when their fields are, heap
\* (element by element, in the Vec's order) and next_index.
eq(a, b) == a.heap = b.heap /\ a.next_index = b.next_index

(***************************************************************************)
(* RedBlackT: construction and operations.                                 *)
(***************************************************************************)
\* RedBlackT::new()
InitRB ==
    /\ root = None
    /\ size = 0
    /\ rb_hist = <<>>

\* Node::new(elem, colour)
NewNode(e, c) == [elem |-> e, colour |-> c]

\* insert(elem): an empty tree gets a black root holding elem; the else
\* branch is commented out, so elem is dropped.  size is not written.
Insert(e) ==
    /\ Len(rb_hist) < MaxRBOps
    /\ root' = IF root = None THEN Some(NewNode(e, "Black")) ELSE root
    /\ rb_hist' = Append(rb_hist, [op |-> "insert", arg |-> e, found |-> FALSE,
                                   removed |-> None])
    /\ UNCHANGED size
    /\ UNCHANGED <<qvars, pqvars, other>>

\* remove(&elem): the body is None.
Remove(e) ==
    /\ Len(rb_hist) < MaxRBOps
    /\ rb_hist' = Append(rb_hist, [op |-> "remove", arg |-> e, found |-> FALSE,
                                   removed |-> None])
    /\ UNCHANGED <<root, size>>
    /\ UNCHANGED <<qvars, pqvars, other>>

\* contains(&elem): the body is false.
Contains(e) ==
    /\ Len(rb_hist) < MaxRBOps
    /\ rb_hist' = Append(rb_hist, [op |-> "contains", arg |-> e, found |-> FALSE,
                                   removed |-> None])
    /\ UNCHANGED <<root, size>>
    /\ UNCHANGED <<qvars, pqvars, other>>

\* size()
rb_size == size

\* is_empty()
rb_is_empty == (size = 0)

(***************************************************************************)
(* Specifications.                                                         *)
(***************************************************************************)
Init == InitQ /\ InitPQ /\ capacity = 0 /\ InitOther /\ InitRB

Next ==
    \/ \E t \in Threads, e \in Values : EnqueueLoad(t, e)
    \/ \E t \in Threads : EnqueueCAS(t)
    \/ \E t \in Threads : Dequeue(t)
    \/ \E t \in Threads, e \in Values : Add(t, e)

\* The concurrent queue under any interleaving of its threads' steps.
Spec == Init /\ [][Next]_vars

\* Runs made of enqueue and dequeue calls only.
NextEnqDeq ==
    \/ \E t \in Threads, e \in Values : EnqueueLoad(t, e)
    \/ \E t \in Threads : EnqueueCAS(t)
    \/ \E t \in Threads : Dequeue(t)

\* The queue under enqueue and dequeue calls when every thread that is
\* inside a call is eventually scheduled: the operating system starves no
\* runnable thread.
FairSpec ==
    Init /\ [][NextEnqDeq]_vars /\ \A t \in Threads : WF_vars(EnqueueCAS(t))

NextEnq ==
    \/ \E t \in Threads, e \in Values : EnqueueLoad(t, e)
    \/ \E t \in Threads : EnqueueCAS(t)

\* The queue under concurrent enqueue calls only.
SpecEnq == Init /\ [][NextEnq]_vars

NextReclaim ==
    \/ \E t \in Threads, e \in Values : EnqueueLoad(t, e)
    \/ \E t \in Threads : EnqueueCAS(t)
    \/ \E t \in Threads : Dequeue(t)
    \/ \E t \in Threads : PrintLastLoad(t)
    \/ \E t \in Threads : PrintLastDeref(t)

\* The queue under enqueue, dequeue and print_last calls, as in the test
\* enqueue_some.
SpecReclaim == Init /\ [][NextReclaim]_vars

InitP == InitQ /\ InitPQ /\ InitOther /\ InitRB

NextPQ ==
    \/ \E e \in PQVals : Push(e)
    \/ PollEmpty
    \/ PollSome

\* The priority queue under any sequence of push and poll calls.
SpecPQ == InitP /\ [][NextPQ]_vars

NextEq ==
    \/ \E e \in PQVals : Push(e)
    \/ \E e \in PQVals : PushOther(e)

\* Two priority queues made by new(), each filled by push calls.
SpecEq == Init /\ [][NextEq]_vars

NextRB ==
    \/ \E e \in RBVals : Insert(e)
    \/ \E e \in RBVals : Remove(e)
    \/ \E e \in RBVals : Contains(e)

\* The tree under any sequence of insert, remove and contains calls.
SpecRB == Init /\ [][NextRB]_vars


(***************************************************************************)
(* Reading the history of a run.                                           *)
(***************************************************************************)
AllIdle == \A t \in Threads : pc[t] = "idle"

\* The history is n enqueue calls of one thread, each returned before the
\* next call starts, followed by dequeues only.
EnqueuesThenDequeues(n) ==
    /\ 2 * n <= Len(hist)
    /\ \A i \in 1..n :
          /\ hist[2 * i - 1].op = "enqueue_call"
          /\ hist[2 * i].op = "enqueue_ret"
          /\ hist[2 * i - 1].t = hist[1].t
    /\ \A j \in (2 * n + 1)..Len(hist) : hist[j].op = "dequeue"

\* The positions of the history at which an enqueue call returned.
EnqueueRets == {i \in DOMAIN hist : hist[i].op = "enqueue_ret"}

EnqueueCalls == {i \in DOMAIN hist : hist[i].op = "enqueue_call"}

Dequeues == {i \in DOMAIN hist : hist[i].op = "dequeue"}

\* The position at which the enqueue that returned at position j was called.
CallOf(j) ==
    CHOOSE i \in EnqueueCalls :
        /\ i < j
        /\ hist[i].t = hist[j].t
        /\ \A k \in (i + 1)..(j - 1) : hist[k].t # hist[j].t

(***************************************************************************)
(* C1.  Sequential FIFO: when one thread enqueues x1, ..., xn on a fresh   *)
(* queue with nothing interleaved, the i-th dequeue that follows returns   *)
(* xi for every i <= n, and the (n+1)-th returns the empty signal.         *)
(***************************************************************************)
C1_SequentialFifo ==
    \A n \in 0..MaxOps :
        EnqueuesThenDequeues(n) =>
            \A i \in 1..(Len(hist) - 2 * n) :
                /\ i <= n => hist[2 * n + i].res = <<hist[2 * i].v>>
                /\ i = n + 1 => hist[2 * n + i].res = Empty

(***************************************************************************)
(* C2.  Enqueue always succeeds: when enqueue calls of several threads,    *)
(* and no other call, have all returned, the chain of nodes reachable from *)
(* head carries every enqueued value exactly once, so it holds as many     *)
(* elements as there were enqueue calls.                                   *)
(***************************************************************************)
C2_EnqueueAlwaysLinks ==
    (AllIdle /\ \A i \in DOMAIN hist : hist[i].op \in {"enqueue_call", "enqueue_ret"})
        => /\ Len(ChainItems) = Cardinality(EnqueueCalls)
           /\ \A v \in Values :
                 Count(ChainItems, v) =
                     Cardinality({i \in EnqueueCalls : hist[i].v = v})

(***************************************************************************)
(* C3.  No loss: when N enqueue calls have returned and M <= N dequeues    *)
(* are then made, each of the M dequeues returns an element, not the       *)
(* empty signal, and the M elements are M distinct enqueued elements.      *)
(***************************************************************************)
C3_NoLoss ==
    LET N == Cardinality(EnqueueRets)
        M == Cardinality(Dequeues)
    IN  ( /\ \A i \in DOMAIN hist :
                hist[i].op \in {"enqueue_call", "enqueue_ret", "dequeue"}
          /\ \A i \in EnqueueRets, j \in Dequeues : i < j
          /\ Cardinality(EnqueueCalls) = N
          /\ M <= N )
        => /\ \A j \in Dequeues : hist[j].res # Empty
           /\ \A v \in Values :
                 Cardinality({j \in Dequeues : hist[j].res = <<v>>})
                     <= Cardinality({i \in EnqueueRets : hist[i].v = v})

(***************************************************************************)
(* C4.  No duplication and no fabrication: every element a dequeue         *)
(* returns was passed to an enqueue that started earlier, and no enqueued  *)
(* element is returned by more than one dequeue (a value is returned at    *)
(* most as often as it was enqueued).                                      *)
(***************************************************************************)
C4_NoDupNoFabrication ==
    /\ \A j \in Dequeues :
          hist[j].res # Empty =>
              \E i \in EnqueueCalls : i < j /\ <<hist[i].v>> = hist[j].res
    /\ \A v \in Values \cup {DefaultItem} :
          Cardinality({j \in Dequeues : hist[j].res = <<v>>})
              <= Cardinality({i \in EnqueueCalls : hist[i].v = v})

\* Dequeues have run after an enqueue swung tail and while another enqueue
\* was between its load and its CAS.
C4_Witness ==
    \E i \in EnqueueRets, j \in Dequeues, k \in Dequeues :
        /\ hist[i].ok /\ i < j
        /\ \E c \in EnqueueCalls, r \in EnqueueRets :
              c < k /\ k < r /\ CallOf(r) = c

(***************************************************************************)
(* C5.  Empty start: right after new(), head and tail point to the same    *)
(* single sentinel node, whose next is null, the chain from head holds no  *)
(* element, and a dequeue returns the empty signal.                        *)
(***************************************************************************)
C5_EmptyStart ==
    /\ hist = <<>> =>
          /\ head = tail
          /\ head # Null
          /\ Len(item) = 1
          /\ next[head] = Null
          /\ ChainItems = <<>>
    /\ (Len(hist) = 1 /\ hist[1].op = "dequeue") => hist[1].res = Empty

\* The first call on a fresh queue was a dequeue.
C5_Witness == Len(hist) = 1 /\ hist[1].op = "dequeue"

\* Every enqueue whose CAS on tail failed was overtaken: between its load of
\* tail and its CAS, the CAS of another thread on tail succeeded.
CasFailureMeansProgress ==
    \A j \in EnqueueRets :
        ~hist[j].ok =>
            \E k \in EnqueueRets :
                /\ CallOf(j) < k /\ k < j
                /\ hist[k].t # hist[j].t
                /\ hist[k].ok

(***************************************************************************)
(* C6.  Lock-free progress: under fair scheduling every call eventually    *)
(* returns, and whenever the CAS of a call fails, the CAS of another       *)
(* thread on the same location (tail) has succeeded since the call loaded  *)
(* the location.                                                           *)
(***************************************************************************)
C6_LockFree ==
    /\ \A t \in Threads : (pc[t] # "idle") ~> (pc[t] = "idle")
    /\ []CasFailureMeansProgress

\* An enqueue has lost its CAS and returned.
C6_Witness == AllIdle /\ \E j \in EnqueueRets : ~hist[j].ok

(***************************************************************************)
(* C7.  add(x) inserts x at the tail: after add(x) returns with no         *)
(* concurrent call, the chain from head ends in a node carrying x.         *)
(***************************************************************************)
C7_AddInsertsAtTail ==
    (AllIdle /\ hist # <<>> /\ hist[Len(hist)].op = "add")
        => /\ ChainItems # <<>>
           /\ ChainItems[Len(ChainItems)] = hist[Len(hist)].v


NonIncreasing(s) == \A i \in 1..(Len(s) - 1) : s[i] >= s[i + 1]

(***************************************************************************)
(* C9.  poll returns None and leaves the queue as it is when the queue is  *)
(* empty; otherwise it returns Some(m), m a greatest element of those      *)
(* held, and removes exactly one occurrence of m.  So the polls that       *)
(* follow a push return the elements held, greatest first.                 *)
(***************************************************************************)
C9_PollReturnsGreatest ==
    /\ (pq_op = "poll" /\ pq_ret = None) => (heap = <<>> /\ next_index = 0)
    /\ (pq_op = "poll" /\ pq_ret # None) =>
          /\ actual # <<>>
          /\ pq_ret = Some(actual[Len(actual)])
          /\ \A i \in DOMAIN heap : heap[i] <= actual[Len(actual)]
    /\ \A v \in PQVals :
          Count(drain_from, v) = Count(heap, v) + Count(actual, v)
    /\ NonIncreasing(actual)

\* A queue of four elements, not all equal, has been drained by four polls.
C9_Witness ==
    /\ pq_op = "poll"
    /\ heap = <<>>
    /\ Len(actual) = 4
    /\ actual[1] > actual[4]

(***************************************************************************)
(* C10.  Length bookkeeping: len() is the number of pushes minus the       *)
(* number of polls that returned Some, is_empty() is true exactly when     *)
(* len() is 0, and next_index equals heap.len().                           *)
(***************************************************************************)
C10_LenBookkeeping ==
    /\ len = n_push - n_some
    /\ is_empty <=> (len = 0)
    /\ next_index = Len(heap)

\* Four pushes and two successful polls have left two equal elements.
C10_Witness ==
    /\ n_push = 4
    /\ n_some = 2
    /\ Len(heap) = 2
    /\ heap[1] = heap[2]


(***************************************************************************)
(* C11.  Equality is independent of insertion order: two priority queues   *)
(* built by pushing the same multiset of elements, in whatever orders,     *)
(* compare equal with ==.                                                  *)
(***************************************************************************)
C11_EqIgnoresInsertionOrder ==
    (\A v \in PQVals : Count(heap, v) = Count(other.heap, v))
        => eq(self, other)

(***************************************************************************)
(* Reading the history of the tree's calls.                                *)
(***************************************************************************)
RBInserts == {i \in DOMAIN rb_hist : rb_hist[i].op = "insert"}

RBRemoves == {i \in DOMAIN rb_hist : rb_hist[i].op = "remove"}

\* The number of copies of v a tree holds after the first k calls, by the
\* contract of insert and remove: inserts add one, a remove takes one if
\* there is one.
RECURSIVE Present(_, _)
Present(v, k) ==
    IF k = 0 THEN 0
    ELSE LET before == Present(v, k - 1)
             call == rb_hist[k]
         IN  IF call.arg # v THEN before
             ELSE IF call.op = "insert" THEN before + 1
             ELSE IF call.op = "remove" /\ before > 0 THEN before - 1
             ELSE before

\* The removes whose element was present when they were called.
RBRemovesOfPresent == {i \in RBRemoves : Present(rb_hist[i].arg, i - 1) > 0}

(***************************************************************************)
(* C12.  Membership: after insert(x) has returned, on a tree that only     *)
(* insert calls have changed, contains(&x) returns true; remove(&y) of an  *)
(* element y that was never inserted returns None.                         *)
(***************************************************************************)
C12_Membership ==
    \A k \in DOMAIN rb_hist :
        /\ ( /\ rb_hist[k].op = "contains"
             /\ \A i \in 1..(k - 1) : rb_hist[i].op # "remove"
             /\ \E i \in 1..(k - 1) :
                   rb_hist[i].op = "insert" /\ rb_hist[i].arg = rb_hist[k].arg )
           => rb_hist[k].found
        /\ ( /\ rb_hist[k].op = "remove"
             /\ \A i \in 1..(k - 1) :
                   ~(rb_hist[i].op = "insert" /\ rb_hist[i].arg = rb_hist[k].arg) )
           => rb_hist[k].removed = None

(***************************************************************************)
(* C13.  Size tracking: size() is the number of insert calls (duplicates   *)
(* counted) minus the number of remove calls whose element was present,    *)
(* and is_empty() is true exactly when size() is 0.                        *)
(***************************************************************************)
C13_SizeTracking ==
    /\ rb_size = Cardinality(RBInserts) - Cardinality(RBRemovesOfPresent)
    /\ rb_is_empty <=> (rb_size = 0)


(***************************************************************************)
(* Reading the nodes off the history.  Every enqueue allocates one node,   *)
(* at its CAS step, so the enqueue that returned at position j made the    *)
(* node after those of the returns before it and of the constructor.       *)
(***************************************************************************)
Range(f) == {f[i] : i \in DOMAIN f}

NodeOfRet(j) ==
    Len(NewQueue.item) + Cardinality({i \in EnqueueRets : i <= j})

\* The nodes head or tail has ever pointed to: the constructor's, and those
\* a successful CAS stored in tail.
Published ==
    {NewQueue.head, NewQueue.tail}
        \cup {NodeOfRet(j) : j \in {i \in EnqueueRets : hist[i].ok}}

\* The value of tail before the event at position i.
TailBefore(i) ==
    LET won == {j \in EnqueueRets : j < i /\ hist[j].ok}
    IN  IF won = {} THEN NewQueue.tail
        ELSE NodeOfRet(CHOOSE j \in won : \A k \in won : k <= j)

\* The pointer the enqueue that returned at position j had loaded from tail.
LoadedBy(j) == TailBefore(CallOf(j))

\* The nodes reachable from a cursor by next links, the cursor's included.
ReachableFrom(n) == Range(ChainFrom(n, Len(item)))

(***************************************************************************)
(* C14.  Head invariant: in every reachable state head is non-null and     *)
(* every live node (its enqueue has returned, it has not been dequeued)    *)
(* is reachable from head by next links.                                   *)
(***************************************************************************)
C14_HeadInvariant ==
    /\ head # Null
    /\ (\A d \in Dequeues : hist[d].res = Empty) =>
          \A j \in EnqueueRets : NodeOfRet(j) \in ReachableFrom(head)

(***************************************************************************)
(* C15.  Tail invariant: in every reachable state tail is non-null,        *)
(* exactly one node ever published has a null next (the true tail), and    *)
(* that node is reachable from tail by next links.                         *)
(***************************************************************************)
C15_TailInvariant ==
    /\ tail # Null
    /\ Cardinality({n \in Published : next[n] = Null}) = 1
    /\ \A n \in Published : next[n] = Null => n \in ReachableFrom(tail)

(***************************************************************************)
(* C16.  Link before swing: tail is swung to a new node only after the     *)
(* node was installed as the next of the last node, so the node tail       *)
(* points to is the initial sentinel or the next of some node.             *)
(***************************************************************************)
C16_LinkBeforeSwing ==
    \/ tail = NewQueue.tail
    \/ \E n \in DOMAIN next : next[n] = tail

C18_SafeReclamation ==
    /\ freed \cap (ReachableFrom(head) \cup ReachableFrom(tail)) = {}
    /\ \A t \in Threads : pc[t] # "idle" => cur[t] \notin freed
    /\ freed \cap Published = {}

\* A node has been freed while a thread inside print_last holds a pointer
\* to a node that an enqueue published.
C18_Witness ==
    /\ freed # {}
    /\ \E t \in Threads : pc[t] = "print" /\ cur[t] # NewQueue.tail

(***************************************************************************)
(* C19.  Dequeue never writes tail: every dequeue, whatever it returns and *)
(* also when head and tail point to the same node, leaves tail as it was;  *)
(* one that returns the empty signal leaves head and every next link as    *)
(* they were too.                                                          *)
(***************************************************************************)
C19_DequeueLeavesTail ==
    [][ ( /\ Len(hist') = Len(hist) + 1
          /\ hist'[Len(hist')].op = "dequeue" )
        => /\ tail' = tail
           /\ hist'[Len(hist')].res = Empty => (head' = head /\ next' = next)
      ]_vars

\* A dequeue has run on the fresh queue, where head and tail are the same
\* node, and another after an enqueue moved tail away from head.
C19_Witness ==
    /\ Len(hist) >= 2
    /\ hist[1].op = "dequeue"
    /\ hist[Len(hist)].op = "dequeue"
    /\ \E j \in EnqueueRets : hist[j].ok

=============================================================================
